---- MODULE Spec2Model ----
(***************************************************************************)
(* ExecutionOS service layer (frontend/src/services) over the CocoBase     *)
(* document store.                                                         *)
(*                                                                         *)
(* The store is four collections; a document's id is its position in the   *)
(* collection (the store assigns ids, documents are never deleted).  Each  *)
(* service call is an async function: it runs synchronously up to its      *)
(* first remote request, and every later step is "the store serves the     *)
(* pending request and the continuation runs up to the next request".      *)
(* Several calls may be in flight at once; their steps interleave.         *)
(* `new Date()` reads a clock with the resolution of one instant: between  *)
(* two readings time has passed, or the clock still shows the same instant. *)
(***************************************************************************)
EXTENDS Integers, Sequences, FiniteSets, Bags, TLC

VARIABLES projects, project_members, tasks, activity_logs, calls, clock, budget,
          session, watcher

vars == <<projects, project_members, tasks, activity_logs, calls, clock, budget,
          session, watcher>>

store == <<projects, project_members, tasks, activity_logs>>

\* the client's auth handler and its realtime watcher
client == <<session, watcher>>

(* ------------------------------ bounds -------------------------------- *)

\* calls that reach the store in one behaviour, from the empty store
MaxCalls == 3
\* calls that reach the store in one behaviour, from a store that holds a task
MaxTaskCalls == 2
\* calls in flight at the same time
MaxInFlight == 2
\* document ids the UI passes as arguments range over 1..MaxId (0 is "")
MaxId == 1
\* calls in one behaviour of all the services together
MaxServiceCalls == 2
\* calls of the disposer of one subscription
MaxDisposals == 2

(* ------------------------------ inputs -------------------------------- *)

Users == {"u1", "u2", "u3"}

\* a user id argument: a user, or the empty string
UserArgs == Users \cup {""}

\* a document id argument; 0 stands for the empty string
IdArgs == 0..MaxId

\* null / undefined of an optional field
Null == "<null>"

TitleArgs == {"", "Launch"}

\* the optional description and dueDate of createTask, passed through to the
\* task as they are: neither given, or both
OptionalArgs == {<<Null, Null>>, <<"write the plan", "2026-01-01">>}

TaskStatus == {"todo", "doing", "done"}

StatusArgs == TaskStatus \cup {"", "blocked"}

\* the number of TRUE entries of a tuple of booleans
Count(flags) == Cardinality({i \in 1..Len(flags) : flags[i]})

\* The argument tuples the UI passes: every combination of valid arguments,
\* and every combination in which exactly one required argument is invalid.
CreateProjectArgs ==
    {a \in UserArgs \X TitleArgs : Count(<<a[1] = "", a[2] = "">>) <= 1}

AddUserToProjectArgs ==
    {a \in IdArgs \X UserArgs \X UserArgs :
        Count(<<a[1] = 0, a[2] = "", a[3] = "">>) <= 1}

CreateTaskArgs ==
    {a \in UserArgs \X IdArgs \X TitleArgs \X {o[1] : o \in OptionalArgs}
              \X (UserArgs \cup {Null}) \X {o[2] : o \in OptionalArgs} :
        /\ Count(<<a[1] = "", a[2] = 0, a[3] = "">>) <= 1
        /\ <<a[4], a[6]>> \in OptionalArgs}

AssignTaskArgs ==
    {a \in UserArgs \X IdArgs \X UserArgs :
        Count(<<a[1] = "", a[2] = 0, a[3] = "">>) <= 1}

UpdateTaskStatusArgs ==
    {a \in UserArgs \X IdArgs \X StatusArgs :
        Count(<<a[1] = "", a[2] = 0, a[3] \notin TaskStatus>>) <= 1}

(* ------------------------------ the store ----------------------------- *)

\* cocobase.listDocuments("project_members", {filters: {projectId, userId}, limit: 1})
ListMembers(projectId, userId) ==
    LET hits == {i \in 1..Len(project_members) :
                    /\ project_members[i].projectId = projectId
                    /\ project_members[i].userId = userId}
    IN  IF hits = {} THEN <<>>
        ELSE <<CHOOSE i \in hits : \A j \in hits : i <= j>>

\* isProjectMember, had the listing been filtered by userId alone
isProjectMemberOfAny(userId, projectId) ==
    IF userId = "" \/ projectId = 0 THEN FALSE
    ELSE \E i \in 1..Len(project_members) : project_members[i].userId = userId

\* tasks.ts isProjectMember, once its listDocuments has been served
isProjectMember(userId, projectId) ==
    IF userId = "" \/ projectId = 0 THEN FALSE
    ELSE Len(ListMembers(projectId, userId)) > 0

ActivityLog(projectId, actorId, entityType, entityId, action, createdAt) ==
    [projectId |-> projectId, actorId |-> actorId, entityType |-> entityType,
     entityId |-> entityId, action |-> action, createdAt |-> createdAt]

\* new Date().toISOString(): the current instant
Date == clock

\* the clock has been read: the next reading gives the same instant (calls
\* within one millisecond) or a later one
Elapses == clock' \in {clock, clock + 1}

\* cocobase.auth: the account whose token the handler holds, the user
\* object it keeps in memory (getUser), and the account whose session is
\* kept in local storage
SignedOut == [account |-> Null, user |-> Null, stored |-> Null]

\* no realtime watcher has been created; disposals counts the calls of the
\* disposer, swallowed the disconnect errors it caught, raised tells whether
\* one of them reached the disposer's caller
NoWatcher ==
    [state |-> "none", projectId |-> 0, disposals |-> 0, swallowed |-> 0,
     raised |-> FALSE]

(* ------------------------------ calls --------------------------------- *)

\* A call as issued: its arguments, and nothing done yet.  pc is the remote
\* request the call waits on; now, docId and projectId are its locals
\* (createdAt / joinedAt / now, the created document's id, task.data.projectId);
\* requests counts the remote requests it has issued and writes lists the
\* ones that changed the store; late records, for addUserToProject, that an
\* earlier call had already added this user to this project; value is what a
\* read returns, list the membership listing of listUserProjects and order
\* the order in which its project fetches completed, limit the limit
\* argument, and failed records that one of the call's remote requests
\* was rejected.
Idle ==
    [op |-> "none", pc |-> "idle", actorId |-> "", projectId |-> 0,
     userId |-> "", taskId |-> 0, assigneeId |-> Null, status |-> "",
     name |-> "", description |-> Null, dueDate |-> Null, now |-> 0, docId |-> 0, result |-> "",
     requests |-> 0, writes |-> <<>>, late |-> FALSE,
     value |-> <<>>, list |-> <<>>, order |-> <<>>, limit |-> 0,
     failed |-> FALSE]

\* the calls that have been issued and whose result has not reached the caller
InFlight == BagToSet(calls)

\* a settled promise is handed to its caller before any other event is served
NoneDone == \A d \in InFlight : d.pc # "done"

CanStart ==
    /\ NoneDone
    /\ budget > 0
    /\ BagCardinality(calls) < MaxInFlight

\* the store serves the request call r is waiting on
Serving(r, pc) == NoneDone /\ r \in InFlight /\ r.pc = pc

\* call r goes on as r2; the services of projects.ts, tasks.ts and
\* activity.ts's listing touch neither the auth handler nor the watcher
Becomes(r, r2) ==
    /\ calls' = (calls (-) SetToBag({r})) (+) SetToBag({r2})
    /\ UNCHANGED client

\* the first remote request of a new call is issued
Issued(call) ==
    /\ calls' = calls (+) SetToBag({call})
    /\ budget' = budget - 1
    /\ UNCHANGED client

\* the call issues its next remote request and waits for it
Awaits(call, pc) == [call EXCEPT !.pc = pc, !.requests = @ + 1]

Finish(call, result) == [call EXCEPT !.pc = "done", !.result = result]

Wrote(call, kind, coll, id) ==
    [call EXCEPT !.writes = Append(@, [kind |-> kind, coll |-> coll, id |-> id])]

\* a call that throws before its first remote request
Rejected(call) ==
    /\ calls' = calls (+) SetToBag({Finish(call, "ValidationError")})
    /\ UNCHANGED <<store, clock, budget, client>>

(* ------------------------------ createProject ------------------------- *)

CreateProject(ownerId, name) ==
    /\ CanStart
    /\ LET call == [Idle EXCEPT !.op = "createProject", !.actorId = ownerId,
                                !.name = name]
       IN  IF ownerId = "" \/ name = ""
           THEN Rejected(call)
           ELSE /\ Issued([Awaits(call, "cp_project") EXCEPT !.now = Date])
                /\ Elapses
                /\ UNCHANGED store

\* CpProject, had the project write been put off until after the others
CpProjectDeferred(r) ==
    /\ Serving(r, "cp_project")
    /\ Becomes(r, [Awaits(r, "cp_member")
                      EXCEPT !.docId = Len(projects) + 1,
                             !.projectId = Len(projects) + 1])
    /\ UNCHANGED <<store, clock, budget>>


CpProject(r) ==
    /\ Serving(r, "cp_project")
    /\ projects' = Append(projects, [name |-> r.name, ownerId |-> r.actorId,
                                     createdAt |-> r.now])
    /\ Becomes(r, [Awaits(Wrote(r, "create", "projects", Len(projects) + 1),
                             "cp_member")
                      EXCEPT !.docId = Len(projects) + 1,
                             !.projectId = Len(projects) + 1])
    /\ UNCHANGED <<project_members, tasks, activity_logs, clock, budget>>

\* CpMember, had the owner not been added as a member
CpMemberOmitted(r) ==
    /\ Serving(r, "cp_member")
    /\ Becomes(r, Awaits(r, "cp_log"))
    /\ UNCHANGED <<store, clock, budget>>

CpMember(r) ==
    /\ Serving(r, "cp_member")
    /\ project_members' = Append(project_members,
                                 [projectId |-> r.docId, userId |-> r.actorId,
                                  joinedAt |-> r.now])
    /\ Becomes(r, Awaits(Wrote(r, "create", "project_members", Len(project_members) + 1),
                             "cp_log"))
    /\ UNCHANGED <<projects, tasks, activity_logs, clock, budget>>

CpLog(r) ==
    /\ Serving(r, "cp_log")
    /\ activity_logs' = Append(activity_logs,
                               ActivityLog(r.docId, r.actorId, "project", r.docId,
                                           "create", r.now))
    /\ Becomes(r, Finish(Wrote(r, "create", "activity_logs", Len(activity_logs) + 1),
                         "ok"))
    /\ UNCHANGED <<projects, project_members, tasks, clock, budget>>

(* ------------------------------ addUserToProject ---------------------- *)

\* an addUserToProject call for this pair has written its membership and its
\* activity entry, that is, has succeeded
AddSucceeded(projectId, userId) ==
    \E i \in 1..Len(activity_logs) :
        /\ activity_logs[i].action = "add_member"
        /\ activity_logs[i].projectId = projectId
        /\ activity_logs[i].entityId \in 1..Len(project_members)
        /\ project_members[activity_logs[i].entityId].userId = userId

AddUserToProject(projectId, userId, actorId) ==
    /\ CanStart
    /\ LET call == [Idle EXCEPT !.op = "addUserToProject", !.projectId = projectId,
                                !.userId = userId, !.actorId = actorId,
                                !.late = AddSucceeded(projectId, userId)]
       IN  IF projectId = 0 \/ userId = "" \/ actorId = ""
           THEN Rejected(call)
           ELSE /\ Issued(Awaits(call, "au_actor"))
                /\ UNCHANGED <<store, clock>>

\* AuActor, had the actor's membership not been required
AuActorUnchecked(r) ==
    /\ Serving(r, "au_actor")
    /\ Becomes(r, Awaits(r, "au_exists"))
    /\ UNCHANGED <<store, clock, budget>>

\* the actor's membership listing is served
AuActor(r) ==
    /\ Serving(r, "au_actor")
    /\ Becomes(r, IF Len(ListMembers(r.projectId, r.actorId)) = 0
                  THEN Finish(r, "AuthorizationError")
                  ELSE Awaits(r, "au_exists"))
    /\ UNCHANGED <<store, clock, budget>>

\* AuExists, had the duplicate check been left out
AuExistsUnchecked(r) ==
    /\ Serving(r, "au_exists")
    /\ Becomes(r, [Awaits(r, "au_member") EXCEPT !.now = Date])
    /\ Elapses
    /\ UNCHANGED <<store, budget>>

\* the duplicate check's listing is served; joinedAt is read when it passes
AuExists(r) ==
    /\ Serving(r, "au_exists")
    /\ IF Len(ListMembers(r.projectId, r.userId)) > 0
       THEN /\ Becomes(r, Finish(r, "ConflictError"))
            /\ clock' = clock
       ELSE /\ Becomes(r, [Awaits(r, "au_member") EXCEPT !.now = Date])
            /\ Elapses
    /\ UNCHANGED <<store, budget>>

\* AuMember, had the write replaced the project's first membership record
\* instead of adding one
AuMemberReplaces(r) ==
    /\ Serving(r, "au_member")
    /\ project_members' = [project_members EXCEPT
                               ![1] = [projectId |-> r.projectId, userId |-> r.userId,
                                       joinedAt |-> r.now]]
    /\ Becomes(r, [Awaits(Wrote(r, "create", "project_members", 1), "au_log")
                      EXCEPT !.docId = 1])
    /\ UNCHANGED <<projects, tasks, activity_logs, clock, budget>>

AuMember(r) ==
    /\ Serving(r, "au_member")
    /\ project_members' = Append(project_members,
                                 [projectId |-> r.projectId, userId |-> r.userId,
                                  joinedAt |-> r.now])
    /\ Becomes(r, [Awaits(Wrote(r, "create", "project_members", Len(project_members) + 1),
                             "au_log")
                      EXCEPT !.docId = Len(project_members) + 1])
    /\ UNCHANGED <<projects, tasks, activity_logs, clock, budget>>

AuLog(r) ==
    /\ Serving(r, "au_log")
    /\ activity_logs' = Append(activity_logs,
                               ActivityLog(r.projectId, r.actorId, "project_member",
                                           r.docId, "add_member", r.now))
    /\ Becomes(r, Finish(Wrote(r, "create", "activity_logs", Len(activity_logs) + 1),
                         "ok"))
    /\ UNCHANGED <<projects, project_members, tasks, clock, budget>>

(* ------------------------------ createTask ---------------------------- *)

\* `if (assigneeId)`: an assignee was passed, and is not the empty string
Provided(assigneeId) == assigneeId \notin {Null, ""}

CreateTask(actorId, projectId, title, description, assigneeId, dueDate) ==
    /\ CanStart
    /\ LET call == [Idle EXCEPT !.op = "createTask", !.actorId = actorId,
                                !.projectId = projectId, !.name = title,
                                !.description = description,
                                !.assigneeId = assigneeId, !.dueDate = dueDate]
       IN  IF actorId = "" \/ projectId = 0 \/ title = ""
           THEN Rejected(call)
           ELSE /\ Issued(Awaits(call, "ct_actor"))
                /\ UNCHANGED <<store, clock>>

\* CtActor, had the actor's membership not been required
CtActorUnchecked(r) ==
    /\ Serving(r, "ct_actor")
    /\ IF Provided(r.assigneeId)
       THEN /\ Becomes(r, Awaits(r, "ct_assignee"))
            /\ clock' = clock
       ELSE /\ Becomes(r, [Awaits(r, "ct_task") EXCEPT !.now = Date])
            /\ Elapses
    /\ UNCHANGED <<store, budget>>

\* the actor's membership check is served; without an assignee the task
\* write is next, and `now` is read
CtActor(r) ==
    /\ Serving(r, "ct_actor")
    /\ IF ~isProjectMember(r.actorId, r.projectId)
       THEN /\ Becomes(r, Finish(r, "AuthorizationError"))
            /\ clock' = clock
       ELSE IF Provided(r.assigneeId)
       THEN /\ Becomes(r, Awaits(r, "ct_assignee"))
            /\ clock' = clock
       ELSE /\ Becomes(r, [Awaits(r, "ct_task") EXCEPT !.now = Date])
            /\ Elapses
    /\ UNCHANGED <<store, budget>>

\* CtAssignee, had the assignee's membership not been required
CtAssigneeUnchecked(r) ==
    /\ Serving(r, "ct_assignee")
    /\ Becomes(r, [Awaits(r, "ct_task") EXCEPT !.now = Date])
    /\ Elapses
    /\ UNCHANGED <<store, budget>>

CtAssignee(r) ==
    /\ Serving(r, "ct_assignee")
    /\ IF ~isProjectMember(r.assigneeId, r.projectId)
       THEN /\ Becomes(r, Finish(r, "AuthorizationError"))
            /\ clock' = clock
       ELSE /\ Becomes(r, [Awaits(r, "ct_task") EXCEPT !.now = Date])
            /\ Elapses
    /\ UNCHANGED <<store, budget>>

CtTask(r) ==
    /\ Serving(r, "ct_task")
    /\ tasks' = Append(tasks, [projectId |-> r.projectId,
                               title |-> r.name,
                               description |-> r.description,
                               status |-> "todo",
                               assigneeId |-> r.assigneeId,
                               dueDate |-> r.dueDate,
                               createdAt |-> r.now,
                               updatedAt |-> r.now])
    /\ Becomes(r, [Awaits(Wrote(r, "create", "tasks", Len(tasks) + 1),
                             "ct_log")
                      EXCEPT !.docId = Len(tasks) + 1])
    /\ UNCHANGED <<projects, project_members, activity_logs, clock, budget>>

CtLog(r) ==
    /\ Serving(r, "ct_log")
    /\ activity_logs' = Append(activity_logs,
                               ActivityLog(r.projectId, r.actorId, "task", r.docId,
                                           "create", r.now))
    /\ Becomes(r, Finish(Wrote(r, "create", "activity_logs", Len(activity_logs) + 1),
                         "ok"))
    /\ UNCHANGED <<projects, project_members, tasks, clock, budget>>

(* ------------------------------ assignTask ---------------------------- *)

AssignTask(actorId, taskId, assigneeId) ==
    /\ CanStart
    /\ LET call == [Idle EXCEPT !.op = "assignTask", !.actorId = actorId,
                                !.taskId = taskId, !.assigneeId = assigneeId]
       IN  IF actorId = "" \/ taskId = 0 \/ assigneeId = ""
           THEN Rejected(call)
           ELSE /\ Issued(Awaits(call, "at_get"))
                /\ UNCHANGED <<store, clock>>

\* AtGet, had a missing task been passed on to the membership checks
AtGetUnchecked(r) ==
    /\ Serving(r, "at_get")
    /\ Becomes(r, [Awaits(r, "at_actor") EXCEPT
                     !.projectId = IF r.taskId \in 1..Len(tasks)
                                   THEN tasks[r.taskId].projectId ELSE 0])
    /\ UNCHANGED <<store, clock, budget>>

\* getDocument("tasks", taskId) is served; projectId is taken from the task
AtGet(r) ==
    /\ Serving(r, "at_get")
    /\ Becomes(r, IF r.taskId \notin 1..Len(tasks)
                  THEN Finish(r, "NotFoundError")
                  ELSE [Awaits(r, "at_actor") EXCEPT
                                 !.projectId = tasks[r.taskId].projectId])
    /\ UNCHANGED <<store, clock, budget>>

AtActor(r) ==
    /\ Serving(r, "at_actor")
    /\ Becomes(r, IF ~isProjectMember(r.actorId, r.projectId)
                  THEN Finish(r, "AuthorizationError")
                  ELSE Awaits(r, "at_assignee"))
    /\ UNCHANGED <<store, clock, budget>>

\* AtAssignee, had the assignee's membership not been required
AtAssigneeUnchecked(r) ==
    /\ Serving(r, "at_assignee")
    /\ Becomes(r, [Awaits(r, "at_update") EXCEPT !.now = Date])
    /\ Elapses
    /\ UNCHANGED <<store, budget>>

AtAssignee(r) ==
    /\ Serving(r, "at_assignee")
    /\ IF ~isProjectMember(r.assigneeId, r.projectId)
       THEN /\ Becomes(r, Finish(r, "AuthorizationError"))
            /\ clock' = clock
       ELSE /\ Becomes(r, [Awaits(r, "at_update") EXCEPT !.now = Date])
            /\ Elapses
    /\ UNCHANGED <<store, budget>>

\* AtUpdate, had the update replaced the document's other fields
AtUpdateResets(r) ==
    /\ Serving(r, "at_update")
    /\ tasks' = [tasks EXCEPT ![r.taskId] =
                    [@ EXCEPT !.assigneeId = r.assigneeId, !.updatedAt = r.now,
                              !.status = "todo"]]
    /\ Becomes(r, Awaits(Wrote(r, "update", "tasks", r.taskId), "at_log"))
    /\ UNCHANGED <<projects, project_members, activity_logs, clock, budget>>

\* updateDocument("tasks", taskId, {assigneeId, updatedAt}) merges the two fields
AtUpdate(r) ==
    /\ Serving(r, "at_update")
    /\ tasks' = [tasks EXCEPT ![r.taskId] =
                    [@ EXCEPT !.assigneeId = r.assigneeId, !.updatedAt = r.now]]
    /\ Becomes(r, Awaits(Wrote(r, "update", "tasks", r.taskId), "at_log"))
    /\ UNCHANGED <<projects, project_members, activity_logs, clock, budget>>

\* AtLog, had the assignment been recorded over the log's first entry
AtLogRewrites(r) ==
    /\ Serving(r, "at_log")
    /\ activity_logs' = [activity_logs EXCEPT ![1] =
                            ActivityLog(r.projectId, r.actorId, "task", r.taskId,
                                        "assign", r.now)]
    /\ Becomes(r, Finish(Wrote(r, "create", "activity_logs", 1), "ok"))
    /\ UNCHANGED <<projects, project_members, tasks, clock, budget>>


AtLog(r) ==
    /\ Serving(r, "at_log")
    /\ activity_logs' = Append(activity_logs,
                               ActivityLog(r.projectId, r.actorId, "task", r.taskId,
                                           "assign", r.now))
    /\ Becomes(r, Finish(Wrote(r, "create", "activity_logs", Len(activity_logs) + 1),
                         "ok"))
    /\ UNCHANGED <<projects, project_members, tasks, clock, budget>>

(* ------------------------------ updateTaskStatus ---------------------- *)

\* `status:${status}`
StatusAction(status) == "status:" \o status

\* UpdateTaskStatus, had any non-empty status been let through
UpdateTaskStatusUnvalidated(actorId, taskId, status) ==
    /\ CanStart
    /\ LET call == [Idle EXCEPT !.op = "updateTaskStatus", !.actorId = actorId,
                                !.taskId = taskId, !.status = status]
       IN  IF actorId = "" \/ taskId = 0 \/ status = ""
           THEN Rejected(call)
           ELSE /\ Issued(Awaits(call, "us_get"))
                /\ UNCHANGED <<store, clock>>


UpdateTaskStatus(actorId, taskId, status) ==
    /\ CanStart
    /\ LET call == [Idle EXCEPT !.op = "updateTaskStatus", !.actorId = actorId,
                                !.taskId = taskId, !.status = status]
       IN  IF actorId = "" \/ taskId = 0 \/ status = "" \/ status \notin TaskStatus
           THEN Rejected(call)
           ELSE /\ Issued(Awaits(call, "us_get"))
                /\ UNCHANGED <<store, clock>>

UsGet(r) ==
    /\ Serving(r, "us_get")
    /\ Becomes(r, IF r.taskId \notin 1..Len(tasks)
                  THEN Finish(r, "NotFoundError")
                  ELSE [Awaits(r, "us_actor") EXCEPT
                                 !.projectId = tasks[r.taskId].projectId])
    /\ UNCHANGED <<store, clock, budget>>

\* UsActor, had the actor's membership not been required
UsActorUnchecked(r) ==
    /\ Serving(r, "us_actor")
    /\ Becomes(r, [Awaits(r, "us_update") EXCEPT !.now = Date])
    /\ Elapses
    /\ UNCHANGED <<store, budget>>


UsActor(r) ==
    /\ Serving(r, "us_actor")
    /\ IF ~isProjectMember(r.actorId, r.projectId)
       THEN /\ Becomes(r, Finish(r, "AuthorizationError"))
            /\ clock' = clock
       ELSE /\ Becomes(r, [Awaits(r, "us_update") EXCEPT !.now = Date])
            /\ Elapses
    /\ UNCHANGED <<store, budget>>

\* UsUpdate, had the status been allowed to move forward only
UsUpdateForwardOnly(r) ==
    LET rank == [x \in TaskStatus |-> CASE x = "todo" -> 1 [] x = "doing" -> 2 [] OTHER -> 3]
    IN  /\ Serving(r, "us_update")
        /\ tasks' = [tasks EXCEPT ![r.taskId] =
                        IF rank[r.status] < rank[@.status] THEN @
                        ELSE [@ EXCEPT !.status = r.status, !.updatedAt = r.now]]
        /\ Becomes(r, Awaits(Wrote(r, "update", "tasks", r.taskId), "us_log"))
        /\ UNCHANGED <<projects, project_members, activity_logs, clock, budget>>

\* updateDocument("tasks", taskId, {status, updatedAt}) merges the two fields
UsUpdate(r) ==
    /\ Serving(r, "us_update")
    /\ tasks' = [tasks EXCEPT ![r.taskId] =
                    [@ EXCEPT !.status = r.status, !.updatedAt = r.now]]
    /\ Becomes(r, Awaits(Wrote(r, "update", "tasks", r.taskId), "us_log"))
    /\ UNCHANGED <<projects, project_members, activity_logs, clock, budget>>

\* UsLog, had the status change not been logged
UsLogOmitted(r) ==
    /\ Serving(r, "us_log")
    /\ Becomes(r, Finish(r, "ok"))
    /\ UNCHANGED <<store, clock, budget>>

UsLog(r) ==
    /\ Serving(r, "us_log")
    /\ activity_logs' = Append(activity_logs,
                               ActivityLog(r.projectId, r.actorId, "task", r.taskId,
                                           StatusAction(r.status), r.now))
    /\ Becomes(r, Finish(Wrote(r, "create", "activity_logs", Len(activity_logs) + 1),
                         "ok"))
    /\ UNCHANGED <<projects, project_members, tasks, clock, budget>>

(* ------------------------------ read-only listings -------------------- *)

\* listUserProjects asks for at most this many memberships
MembershipLimit == 100

\* listProjectTasks asks for at most this many tasks
TaskLimit == 200

\* the default of listActivityLogs' limit argument
DefaultLimit == 100

LimitArgs == {1, DefaultLimit}

\* the first n elements of a sequence
Take(seq, n) == SubSeq(seq, 1, IF Len(seq) < n THEN Len(seq) ELSE n)

\* the orders in which the store may list the documents S: a listing without
\* a sort option comes in an order of the store's choosing
RECURSIVE Orders(_)
Orders(S) ==
    IF S = {} THEN {<<>>}
    ELSE UNION {{<<x>> \o q : q \in Orders(S \ {x})} : x \in S}

\* listDocuments("activity_logs", {filters: {projectId}, sort: "createdAt",
\* order: "desc"}): newest first, entries of one instant in either order
NewestFirst(projectId) ==
    {q \in Orders({i \in 1..Len(activity_logs) :
                      activity_logs[i].projectId = projectId}) :
        \A i, j \in 1..Len(q) :
            i < j => activity_logs[q[i]].createdAt >= activity_logs[q[j]].createdAt}

ListUserProjects(userId) ==
    /\ CanStart
    /\ LET call == [Idle EXCEPT !.op = "listUserProjects", !.userId = userId]
       IN  IF userId = ""
           THEN Rejected(call)
           ELSE /\ Issued(Awaits(call, "lp_list"))
                /\ UNCHANGED <<store, clock>>

\* the membership listing is served; with no membership the call returns [],
\* otherwise one getDocument per membership is issued, all at once
LpList(r) ==
    /\ Serving(r, "lp_list")
    /\ \E q \in Orders({i \in 1..Len(project_members) :
                          project_members[i].userId = r.userId}) :
          LET memberships == Take(q, MembershipLimit)
              n == Len(memberships)
          IN  Becomes(r, IF n = 0
                         THEN Finish(r, "ok")
                         ELSE [r EXCEPT
                                 !.pc = "lp_fetch",
                                 !.requests = @ + n,
                                 !.list = [k \in 1..n |->
                                     project_members[memberships[k]].projectId],
                                 !.value = [k \in 1..n |-> 0]])
    /\ UNCHANGED <<store, clock, budget>>

\* LpFetch, had the fetch that completes last been returned first
LpFetchLastFirst(r, k) ==
    /\ Serving(r, "lp_fetch")
    /\ k \in 1..Len(r.list)
    /\ r.value[k] = 0
    /\ LET value == [r.value EXCEPT ![k] = r.list[k]]
           n == Len(value)
       IN  Becomes(r, IF \A j \in 1..n : value[j] # 0
                      THEN Finish([r EXCEPT !.value =
                                      <<value[k]>> \o SubSeq(value, 1, k - 1)
                                                   \o SubSeq(value, k + 1, n),
                                            !.order = Append(@, k)], "ok")
                      ELSE [r EXCEPT !.value = value, !.order = Append(@, k)])
    /\ UNCHANGED <<store, clock, budget>>

\* the k-th project fetch is served, in whatever order the fetches complete;
\* Promise.all resolves, once all have, with the results in the order of
\* the membership listing
LpFetch(r, k) ==
    /\ Serving(r, "lp_fetch")
    /\ k \in 1..Len(r.list)
    /\ r.value[k] = 0
    /\ LET value == [r.value EXCEPT ![k] = r.list[k]]
       IN  Becomes(r, IF r.list[k] \notin 1..Len(projects)
                      THEN Finish(r, "NotFoundError")
                      ELSE IF \A j \in 1..Len(value) : value[j] # 0
                      THEN Finish([r EXCEPT !.value = value,
                                            !.order = Append(@, k)], "ok")
                      ELSE [r EXCEPT !.value = value, !.order = Append(@, k)])
    /\ UNCHANGED <<store, clock, budget>>

ListProjectTasks(projectId) ==
    /\ CanStart
    /\ LET call == [Idle EXCEPT !.op = "listProjectTasks", !.projectId = projectId]
       IN  IF projectId = 0
           THEN Rejected(call)
           ELSE /\ Issued(Awaits(call, "lt_list"))
                /\ UNCHANGED <<store, clock>>

LtList(r) ==
    /\ Serving(r, "lt_list")
    /\ \E q \in Orders({i \in 1..Len(tasks) : tasks[i].projectId = r.projectId}) :
          Becomes(r, Finish([r EXCEPT !.value = Take(q, TaskLimit)], "ok"))
    /\ UNCHANGED <<store, clock, budget>>

ListActivityLogs(projectId, limit) ==
    /\ CanStart
    /\ LET call == [Idle EXCEPT !.op = "listActivityLogs", !.projectId = projectId,
                                !.limit = limit]
       IN  IF projectId = 0
           THEN Rejected(call)
           ELSE /\ Issued(Awaits(call, "la_list"))
                /\ UNCHANGED <<store, clock>>

LaList(r) ==
    /\ Serving(r, "la_list")
    /\ \E q \in NewestFirst(r.projectId) :
          Becomes(r, Finish([r EXCEPT !.value = Take(q, r.limit)], "ok"))
    /\ UNCHANGED <<store, clock, budget>>

(* ------------------------------ subscribeActivityLogs ----------------- *)

\* SubscribeActivityLogs, had the watcher been connected before projectId
\* was looked at
SubscribeConnectsFirst(projectId) ==
    /\ CanStart
    /\ watcher.state = "none"
    /\ LET call == [Idle EXCEPT !.op = "subscribeActivityLogs",
                                !.projectId = projectId]
       IN  /\ watcher' = [NoWatcher EXCEPT !.state = "connecting",
                                           !.projectId = projectId]
           /\ calls' = calls (+) SetToBag({Finish(Awaits(call, "connect"),
                           IF projectId = 0 THEN "ValidationError" ELSE "ok")})
           /\ budget' = budget - 1
           /\ UNCHANGED <<store, clock, session>>

\* Synchronous: the watcher is created and connect() is called, and the
\* disposer is returned at once.
SubscribeActivityLogs(projectId) ==
    /\ CanStart
    /\ watcher.state = "none"
    /\ LET call == [Idle EXCEPT !.op = "subscribeActivityLogs",
                                !.projectId = projectId]
       IN  IF projectId = 0
           THEN Rejected(call)
           ELSE /\ watcher' = [NoWatcher EXCEPT !.state = "connecting",
                                                !.projectId = projectId]
                /\ calls' = calls (+) SetToBag({Finish(Awaits(call, "connect"), "ok")})
                /\ budget' = budget - 1
                /\ UNCHANGED <<store, clock, session>>

\* the channel opens (onConnected)
Connected ==
    /\ watcher.state = "connecting"
    /\ watcher' = [watcher EXCEPT !.state = "open"]
    /\ UNCHANGED <<store, calls, clock, budget, session>>

\* the server or the network closes the channel (onError / onClose)
ChannelClosed ==
    /\ watcher.state \in {"connecting", "open"}
    /\ watcher' = [watcher EXCEPT !.state = "closed"]
    /\ UNCHANGED <<store, calls, clock, budget, session>>

\* Dispose, had the disposer let the error of disconnect() through
DisposeRethrows ==
    /\ watcher.state # "none"
    /\ watcher.disposals < MaxDisposals
    /\ \E throws \in BOOLEAN :
          watcher' = [watcher EXCEPT
                         !.state = IF throws THEN @ ELSE "closed",
                         !.disposals = @ + 1,
                         !.raised = throws]
    /\ UNCHANGED <<store, calls, clock, budget, session>>

\* The disposer is called: watcher.disconnect() closes the channel, or
\* throws (the channel is closed already, or closing fails); the disposer
\* catches whatever it throws and returns.
Dispose ==
    /\ watcher.state # "none"
    /\ watcher.disposals < MaxDisposals
    /\ \E throws \in BOOLEAN :
          watcher' = [watcher EXCEPT
                         !.state = IF throws THEN @ ELSE "closed",
                         !.disposals = @ + 1,
                         !.swallowed = IF throws THEN @ + 1 ELSE @]
    /\ UNCHANGED <<store, calls, clock, budget, session>>

(* ------------------------------ auth ---------------------------------- *)

\* cocobase.auth.isAuthenticated()
isAuthenticated == session.account # Null

\* call r goes on as r2 (a call of the auth service, which may change the
\* auth handler)
Continues(r, r2) == calls' = (calls (-) SetToBag({r})) (+) SetToBag({r2})

Signup(email) ==
    /\ CanStart
    /\ Issued(Awaits([Idle EXCEPT !.op = "signup", !.userId = email], "su_register"))
    /\ UNCHANGED <<store, clock>>

\* auth.register is served: the handler holds the new account's token, and
\* getUser() gives the user or nothing; with nothing the user is fetched
SuRegister(r) ==
    /\ Serving(r, "su_register")
    /\ \E kept \in BOOLEAN :
          /\ session' = [account |-> r.userId,
                         user |-> IF kept THEN r.userId ELSE Null,
                         stored |-> r.userId]
          /\ Continues(r, IF kept
                          THEN Finish([r EXCEPT !.value = <<r.userId>>], "ok")
                          ELSE Awaits(r, "su_current"))
    /\ UNCHANGED <<store, clock, budget, watcher>>

\* auth.getCurrentUser is served for the account whose token is held
SuCurrent(r) ==
    /\ Serving(r, "su_current")
    /\ isAuthenticated
    /\ Becomes(r, Finish([r EXCEPT !.value = <<session.account>>], "ok"))
    /\ UNCHANGED <<store, clock, budget>>

Login(email) ==
    /\ CanStart
    /\ Issued(Awaits([Idle EXCEPT !.op = "login", !.userId = email], "li_login"))
    /\ UNCHANGED <<store, clock>>

LiLogin(r) ==
    /\ Serving(r, "li_login")
    /\ \E kept \in BOOLEAN :
          /\ session' = [account |-> r.userId,
                         user |-> IF kept THEN r.userId ELSE Null,
                         stored |-> r.userId]
          /\ Continues(r, IF kept
                          THEN Finish([r EXCEPT !.value = <<r.userId>>], "ok")
                          ELSE Awaits(r, "li_current"))
    /\ UNCHANGED <<store, clock, budget, watcher>>

LiCurrent(r) ==
    /\ Serving(r, "li_current")
    /\ isAuthenticated
    /\ Becomes(r, Finish([r EXCEPT !.value = <<session.account>>], "ok"))
    /\ UNCHANGED <<store, clock, budget>>

\* getCurrentUser: null at once when no token is held, else the user is fetched
GetCurrentUser ==
    /\ CanStart
    /\ LET call == [Idle EXCEPT !.op = "getCurrentUser"]
       IN  IF ~isAuthenticated
           THEN /\ calls' = calls (+)
                       SetToBag({Finish([call EXCEPT !.value = <<Null>>], "ok")})
                /\ UNCHANGED <<budget, client>>
           ELSE Issued(Awaits(call, "gc_current"))
    /\ UNCHANGED <<store, clock>>

GcCurrent(r) ==
    /\ Serving(r, "gc_current")
    /\ isAuthenticated
    /\ Becomes(r, Finish([r EXCEPT !.value = <<session.account>>], "ok"))
    /\ UNCHANGED <<store, clock, budget>>

\* auth.getCurrentUser is rejected: the catch block returns null
GcFail(r) ==
    /\ Serving(r, "gc_current")
    /\ Becomes(r, Finish([r EXCEPT !.failed = TRUE, !.value = <<Null>>], "ok"))
    /\ UNCHANGED <<store, clock, budget>>

\* useAuth().initAuth: the session kept in local storage is restored
InitAuth ==
    /\ CanStart
    /\ Issued(Awaits([Idle EXCEPT !.op = "initAuth"], "ia_restore"))
    /\ UNCHANGED <<store, clock>>

\* auth.initAuth is served: the handler holds the stored account's token
\* again, and getUser() gives its user or nothing
IaRestore(r) ==
    /\ Serving(r, "ia_restore")
    /\ \E kept \in BOOLEAN :
          LET user == IF kept THEN session.stored ELSE Null
          IN  /\ session' = [account |-> session.stored, user |-> user,
                             stored |-> session.stored]
              /\ Continues(r, Finish([r EXCEPT !.value = <<user>>], "ok"))
    /\ UNCHANGED <<store, clock, budget, watcher>>

\* logout: the handler drops the token and the user, and the stored session
Logout ==
    /\ session # SignedOut
    /\ session' = SignedOut
    /\ UNCHANGED <<store, calls, clock, budget, watcher>>

(* ------------------------------ remote failure ------------------------ *)

\* the positions at which a call waits for the store
RemotePcs ==
    {"cp_project", "cp_member", "cp_log",
     "au_actor", "au_exists", "au_member", "au_log",
     "ct_actor", "ct_assignee", "ct_task", "ct_log",
     "at_get", "at_actor", "at_assignee", "at_update", "at_log",
     "us_get", "us_actor", "us_update", "us_log",
     "lp_list", "lp_fetch", "lt_list", "la_list",
     "su_register", "su_current", "li_login", "li_current", "ia_restore"}

\* RemoteFail, had the error been dropped and the call returned normally
RemoteFailSwallowed(r) ==
    /\ NoneDone
    /\ r \in InFlight
    /\ r.pc \in RemotePcs
    /\ Becomes(r, Finish([r EXCEPT !.failed = TRUE], "ok"))
    /\ UNCHANGED <<store, clock, budget>>

\* RemoteFail, had a failed createProject taken its project back
RemoteFailRollback(r) ==
    /\ NoneDone
    /\ r \in InFlight
    /\ r.pc \in RemotePcs
    /\ Becomes(r, Finish([r EXCEPT !.failed = TRUE], "RemoteError"))
    /\ projects' = IF r.pc \in {"cp_member", "cp_log"} /\ r.docId = Len(projects)
                   THEN SubSeq(projects, 1, Len(projects) - 1)
                   ELSE projects
    /\ UNCHANGED <<project_members, tasks, activity_logs, clock, budget>>

\* the pending request is rejected by the store or the network: the await
\* throws, nothing catches it, and the call ends with that error
RemoteFail(r) ==
    /\ NoneDone
    /\ r \in InFlight
    /\ r.pc \in RemotePcs
    /\ Becomes(r, Finish([r EXCEPT !.failed = TRUE], "RemoteError"))
    /\ UNCHANGED <<store, clock, budget>>

(* ------------------------------ the caller ---------------------------- *)

\* the awaited promise settles: the result (or the error) reaches the caller
Return(r) ==
    /\ r \in InFlight
    /\ r.pc = "done"
    /\ calls' = calls (-) SetToBag({r})
    /\ UNCHANGED <<store, clock, budget, client>>

(* ------------------------------ specification ------------------------- *)

Init ==
    /\ projects = <<>>
    /\ project_members = <<>>
    /\ tasks = <<>>
    /\ activity_logs = <<>>
    /\ calls = EmptyBag
    /\ clock = 1
    /\ budget = MaxCalls
    /\ session = SignedOut
    /\ watcher = NoWatcher

\* the steps in which no remote request is rejected
NextReliable ==
    \/ \E a \in CreateProjectArgs : CreateProject(a[1], a[2])
    \/ \E r \in InFlight : CpProject(r)
    \/ \E r \in InFlight : CpMember(r)
    \/ \E r \in InFlight : CpLog(r)
    \/ \E a \in AddUserToProjectArgs : AddUserToProject(a[1], a[2], a[3])
    \/ \E r \in InFlight : AuActor(r)
    \/ \E r \in InFlight : AuExists(r)
    \/ \E r \in InFlight : AuMember(r)
    \/ \E r \in InFlight : AuLog(r)
    \/ \E a \in CreateTaskArgs : CreateTask(a[1], a[2], a[3], a[4], a[5], a[6])
    \/ \E r \in InFlight : CtActor(r)
    \/ \E r \in InFlight : CtAssignee(r)
    \/ \E r \in InFlight : CtTask(r)
    \/ \E r \in InFlight : CtLog(r)
    \/ \E a \in AssignTaskArgs : AssignTask(a[1], a[2], a[3])
    \/ \E r \in InFlight : AtGet(r)
    \/ \E r \in InFlight : AtActor(r)
    \/ \E r \in InFlight : AtAssignee(r)
    \/ \E r \in InFlight : AtUpdate(r)
    \/ \E r \in InFlight : AtLog(r)
    \/ \E a \in UpdateTaskStatusArgs : UpdateTaskStatus(a[1], a[2], a[3])
    \/ \E r \in InFlight : UsGet(r)
    \/ \E r \in InFlight : UsActor(r)
    \/ \E r \in InFlight : UsUpdate(r)
    \/ \E r \in InFlight : UsLog(r)
    \/ \E r \in InFlight : Return(r)

Next ==
    \/ NextReliable
    \/ \E r \in InFlight : RemoteFail(r)

Spec == Init /\ [][Next]_vars

\* The store after createProject("u1", "Launch") has returned: one project,
\* its owner's membership, and no task yet.
InitLaunch ==
    /\ projects = <<[name |-> "Launch", ownerId |-> "u1", createdAt |-> 1]>>
    /\ project_members = <<[projectId |-> 1, userId |-> "u1", joinedAt |-> 1]>>
    /\ tasks = <<>>
    /\ activity_logs = <<ActivityLog(1, "u1", "project", 1, "create", 1)>>
    /\ calls = EmptyBag
    /\ clock = 2
    /\ budget = MaxTaskCalls
    /\ session = SignedOut
    /\ watcher = NoWatcher

SpecLaunch == InitLaunch /\ [][Next]_vars

\* The store before any call has been made: no project exists, so every
\* projectId and taskId a call names is the id of a missing document.
InitFresh ==
    /\ projects = <<>>
    /\ project_members = <<>>
    /\ tasks = <<>>
    /\ activity_logs = <<>>
    /\ calls = EmptyBag
    /\ clock = 1
    /\ budget = MaxTaskCalls
    /\ session = SignedOut
    /\ watcher = NoWatcher

\* The projects and tasks services started on the empty store or on the
\* store holding one project.
InitEither == InitFresh \/ InitLaunch

SpecEither == InitEither /\ [][Next]_vars

\* The store after createProject("u1", "Launch") and then
\* createTask("u1", 1, "Launch") have both returned.
InitTasks ==
    /\ projects = <<[name |-> "Launch", ownerId |-> "u1", createdAt |-> 1]>>
    /\ project_members = <<[projectId |-> 1, userId |-> "u1", joinedAt |-> 1]>>
    /\ tasks = <<[projectId |-> 1, title |-> "Launch", description |-> Null,
                  status |-> "todo", assigneeId |-> Null, dueDate |-> Null,
                  createdAt |-> 2, updatedAt |-> 2]>>
    /\ activity_logs = <<ActivityLog(1, "u1", "project", 1, "create", 1),
                         ActivityLog(1, "u1", "task", 1, "create", 2)>>
    /\ calls = EmptyBag
    /\ clock = 3
    /\ budget = MaxTaskCalls
    /\ session = SignedOut
    /\ watcher = NoWatcher

SpecTasks == InitTasks /\ [][Next]_vars

\* The projects and tasks services over a store that rejects no request.
SpecReliable == InitTasks /\ [][NextReliable]_vars

\* All the services together: the operations above, the read-only listings,
\* the activity subscription and the auth wrappers.
NextServices ==
    \/ Next
    \/ \E userId \in UserArgs : ListUserProjects(userId)
    \/ \E r \in InFlight : LpList(r)
    \/ \E r \in InFlight : \E k \in 1..Len(r.list) : LpFetch(r, k)
    \/ \E projectId \in IdArgs : ListProjectTasks(projectId)
    \/ \E r \in InFlight : LtList(r)
    \/ \E projectId \in IdArgs, limit \in LimitArgs : ListActivityLogs(projectId, limit)
    \/ \E r \in InFlight : LaList(r)
    \/ \E projectId \in IdArgs : SubscribeActivityLogs(projectId)
    \/ Connected
    \/ ChannelClosed
    \/ Dispose
    \/ \E email \in Users : Signup(email)
    \/ \E r \in InFlight : SuRegister(r)
    \/ \E r \in InFlight : SuCurrent(r)
    \/ \E email \in Users : Login(email)
    \/ \E r \in InFlight : LiLogin(r)
    \/ \E r \in InFlight : LiCurrent(r)
    \/ InitAuth
    \/ \E r \in InFlight : IaRestore(r)
    \/ GetCurrentUser
    \/ \E r \in InFlight : GcCurrent(r)
    \/ \E r \in InFlight : GcFail(r)
    \/ Logout

\* The store after createProject("u1", "Launch") twice and then
\* createTask("u1", 1, "Launch") have returned, in a client opened with no
\* stored session or with the session u1 left by an earlier login.
InitServices ==
    /\ projects = <<[name |-> "Launch", ownerId |-> "u1", createdAt |-> 1],
                    [name |-> "Launch", ownerId |-> "u1", createdAt |-> 2]>>
    /\ project_members = <<[projectId |-> 1, userId |-> "u1", joinedAt |-> 1],
                           [projectId |-> 2, userId |-> "u1", joinedAt |-> 2]>>
    /\ tasks = <<[projectId |-> 1, title |-> "Launch", description |-> Null,
                  status |-> "todo", assigneeId |-> Null, dueDate |-> Null,
                  createdAt |-> 3, updatedAt |-> 3]>>
    /\ activity_logs = <<ActivityLog(1, "u1", "project", 1, "create", 1),
                         ActivityLog(2, "u1", "project", 2, "create", 2),
                         ActivityLog(1, "u1", "task", 1, "create", 3)>>
    /\ calls = EmptyBag
    /\ clock = 4
    /\ budget = MaxServiceCalls
    /\ session \in {SignedOut, [SignedOut EXCEPT !.stored = "u1"]}
    /\ watcher = NoWatcher

SpecServices == InitServices /\ [][NextServices]_vars

(***************************************************************************)
(* Properties                                                              *)
(***************************************************************************)

\* the calls whose result is being handed to the caller
Done == {r \in InFlight : r.pc = "done"}

Returned(op) == {r \in Done : r.op = op}

Mutating ==
    {"createProject", "addUserToProject", "createTask", "assignTask",
     "updateTaskStatus"}

\* the membership records of a (projectId, userId) pair
Memberships(projectId, userId) ==
    {i \in 1..Len(project_members) :
        /\ project_members[i].projectId = projectId
        /\ project_members[i].userId = userId}

\* the writes of a call, by collection
WritesTo(r, coll) == {i \in 1..Len(r.writes) : r.writes[i].coll = coll}

(* C1: in every reachable state, also after interleaved addUserToProject   *)
(* and createProject calls, there is at most one project_members record    *)
(* for each (projectId, userId) pair.                                      *)
C1_OneMembershipPerPair ==
    \A i, j \in 1..Len(project_members) :
        (/\ project_members[i].projectId = project_members[j].projectId
         /\ project_members[i].userId = project_members[j].userId) => i = j

\* the entity a call's activity entry is about, and the entry's fields
EntityType(r) ==
    CASE r.op = "createProject" -> "project"
      [] r.op = "addUserToProject" -> "project_member"
      [] OTHER -> "task"

EntityId(r) ==
    IF r.op \in {"assignTask", "updateTaskStatus"} THEN r.taskId
    ELSE r.writes[1].id

LogProjectId(r) ==
    CASE r.op = "createProject" -> r.writes[1].id
      [] r.op \in {"assignTask", "updateTaskStatus"} -> tasks[r.taskId].projectId
      [] OTHER -> r.projectId

LogAction(r) ==
    CASE r.op \in {"createProject", "createTask"} -> "create"
      [] r.op = "addUserToProject" -> "add_member"
      [] r.op = "assignTask" -> "assign"
      [] OTHER -> "status:" \o r.status

\* the call's primary entity write: the first write of the call
PrimaryColl(r) ==
    CASE r.op = "createProject" -> "projects"
      [] r.op = "addUserToProject" -> "project_members"
      [] OTHER -> "tasks"

\* entry i of activity_logs is the entry call r has to write
IsEntryOf(i, r) ==
    /\ i \in 1..Len(activity_logs)
    /\ activity_logs[i].projectId = LogProjectId(r)
    /\ activity_logs[i].actorId = r.actorId
    /\ activity_logs[i].entityType = EntityType(r)
    /\ activity_logs[i].entityId = EntityId(r)
    /\ activity_logs[i].action = LogAction(r)

(* C2: every createProject, addUserToProject, createTask, assignTask or    *)
(* updateTaskStatus call that returns successfully has appended exactly    *)
(* one activity_logs entry, with that call's projectId, actorId, entity id *)
(* and action, and wrote it after its primary entity write.                *)
C2_OneEntryPerSuccess ==
    \A r \in Done :
        (r.op \in Mutating /\ r.result = "ok") =>
            /\ Len(r.writes) >= 2
            /\ r.writes[1].coll = PrimaryColl(r)
            /\ WritesTo(r, "activity_logs") = {Len(r.writes)}
            /\ r.writes[Len(r.writes)].kind = "create"
            /\ IsEntryOf(r.writes[Len(r.writes)].id, r)

C2_Witness ==
    \E r \in Returned("updateTaskStatus") :
        /\ r.result = "ok"
        /\ r.status = "done"
        /\ Len(activity_logs) >= 3

\* the action a task write has to be logged with
TaskWriteAction(r, w) ==
    IF w.kind = "create" THEN "create" ELSE LogAction(r)

(* C3: whenever the call that committed a task write (task creation,       *)
(* assignee update, status update) is no longer in flight, an              *)
(* activity_logs entry with that task's id and the matching action exists, *)
(* also when remote calls may fail.                                        *)
C3_TaskWriteLogged ==
    \A r \in Done : \A k \in WritesTo(r, "tasks") :
        \E i \in 1..Len(activity_logs) :
            /\ activity_logs[i].entityType = "task"
            /\ activity_logs[i].entityId = r.writes[k].id
            /\ activity_logs[i].action = TaskWriteAction(r, r.writes[k])

\* a call that was neither rejected for its arguments nor ended by a failed
\* remote call
Decided(r) == r.result \notin {"ValidationError", "RemoteError"}

IsMember(userId, projectId) == Memberships(projectId, userId) # {}

(* C4, as claimed: after addUserToProject(projectId, userId, actorId)      *)
(* succeeds a membership query for (userId, projectId) returns true, and   *)
(* every later addUserToProject call with the same (projectId, userId)     *)
(* pair fails with the duplicate-membership error and writes neither a     *)
(* membership nor an activity entry.                                       *)
C4_LaterCallConflicts ==
    \A r \in Returned("addUserToProject") :
        /\ r.result = "ok" => IsMember(r.userId, r.projectId)
        /\ (r.late /\ Decided(r)) =>
              (r.result = "ConflictError" /\ r.writes = <<>>)

(* C4, amended: after addUserToProject succeeds a membership query for the *)
(* pair returns true, in every later state, and every later                *)
(* addUserToProject call with the same pair fails and writes neither a     *)
(* membership nor an activity entry; its error is the duplicate-membership *)
(* error when its actorId is a member of the project and the authorization *)
(* error when it is not (an empty actorId is rejected by validation, a     *)
(* failed lookup ends the call with the remote error).                     *)
C4_LaterCallFails ==
    /\ \A projectId \in 1..Len(projects), userId \in Users :
          AddSucceeded(projectId, userId) => IsMember(userId, projectId)
    /\ \A r \in Returned("addUserToProject") :
          /\ r.result = "ok" => IsMember(r.userId, r.projectId)
          /\ r.late =>
                /\ r.writes = <<>>
                /\ r.result # "ok"
                /\ r.result = "ValidationError" => r.actorId = ""
                /\ Decided(r) =>
                      r.result = IF IsMember(r.actorId, r.projectId)
                                 THEN "ConflictError"
                                 ELSE "AuthorizationError"

C4_Witness ==
    \E r \in Returned("addUserToProject") :
        /\ r.late
        /\ r.result = "ConflictError"
        /\ IsMember(r.userId, r.projectId)

(* C5: when no remote call fails, createProject(ownerId, name) with        *)
(* non-empty arguments adds exactly one projects document {name, ownerId}, *)
(* one project_members document {new project id, ownerId} and one          *)
(* activity_logs document {create, project, new project id, ownerId}, and  *)
(* writes nothing else.                                                    *)
C5_CreateProjectWrites ==
    \A r \in Returned("createProject") :
        (r.actorId # "" /\ r.name # "" /\ r.result # "RemoteError") =>
            /\ r.result = "ok"
            /\ Len(r.writes) = 3
            /\ \A k \in 1..3 : r.writes[k].kind = "create"
            /\ r.writes[1].coll = "projects"
            /\ r.writes[2].coll = "project_members"
            /\ r.writes[3].coll = "activity_logs"
            /\ LET p == r.writes[1].id
                   m == r.writes[2].id
                   l == r.writes[3].id
               IN  /\ p \in 1..Len(projects)
                   /\ m \in 1..Len(project_members)
                   /\ l \in 1..Len(activity_logs)
                   /\ projects[p].name = r.name
                   /\ projects[p].ownerId = r.actorId
                   /\ project_members[m].projectId = p
                   /\ project_members[m].userId = r.actorId
                   /\ activity_logs[l].action = "create"
                   /\ activity_logs[l].entityType = "project"
                   /\ activity_logs[l].entityId = p
                   /\ activity_logs[l].actorId = r.actorId
                   /\ activity_logs[l].projectId = p

C5_Witness ==
    \E r \in Returned("createProject") :
        /\ r.result = "ok"
        /\ r.actorId = "u2"
        /\ Len(projects) = 2
        /\ Memberships(2, "u2") # {}

\* createTask's membership precondition fails for the call's arguments
CreateTaskUnauthorized(r) ==
    \/ ~IsMember(r.actorId, r.projectId)
    \/ Provided(r.assigneeId) /\ ~IsMember(r.assigneeId, r.projectId)

(* C6: createTask fails with the authorization error whenever actorId has  *)
(* no membership record for projectId, and likewise when a provided        *)
(* assigneeId has none; in both cases no tasks document and no             *)
(* activity_logs document is created.  (A call whose membership lookup     *)
(* itself fails ends with that remote error, and creates nothing either.)  *)
C6_CreateTaskAuthorization ==
    \A r \in Returned("createTask") :
        (r.result # "ValidationError" /\ CreateTaskUnauthorized(r)) =>
            /\ r.result \in {"AuthorizationError", "RemoteError"}
            /\ r.writes = <<>>

C6_Witness ==
    \E r \in Returned("createTask") :
        /\ r.result = "AuthorizationError"
        /\ IsMember(r.actorId, r.projectId)
        /\ Provided(r.assigneeId)
        /\ ~IsMember(r.assigneeId, r.projectId)
        /\ r.requests = 2

\* the project of the task a call is about
TaskProject(r) == tasks[r.taskId].projectId

AssignUnauthorized(r) ==
    \/ ~IsMember(r.actorId, TaskProject(r))
    \/ ~IsMember(r.assigneeId, TaskProject(r))

(* C7: assignTask fails with the authorization error if assigneeId is not  *)
(* a member of the task's project, even if actorId is a member, and also   *)
(* if actorId is not a member; in either case the call issues no task      *)
(* update and no activity entry, and the step that raises the error leaves *)
(* the tasks (assigneeId and updatedAt included) and the activity log as   *)
(* they were.  (A call whose lookup itself fails ends with that remote     *)
(* error, and writes nothing either.)                                      *)
C7_AssignTaskAuthorization ==
    /\ [](\A r \in Returned("assignTask") :
            (/\ r.result # "ValidationError"
             /\ r.taskId \in 1..Len(tasks)
             /\ AssignUnauthorized(r)) =>
                /\ r.result \in {"AuthorizationError", "RemoteError"}
                /\ r.writes = <<>>)
    /\ [][\A r \in Returned("assignTask")' :
            r.result = "AuthorizationError" =>
                (tasks' = tasks /\ activity_logs' = activity_logs)]_vars

C7_Witness ==
    \E r \in Returned("assignTask") :
        /\ r.result = "AuthorizationError"
        /\ IsMember(r.actorId, TaskProject(r))
        /\ ~IsMember(r.assigneeId, TaskProject(r))
        /\ \E u \in Users : IsMember(u, TaskProject(r)) /\ u # r.actorId

(* C8: in every reachable state, under any interleaving of createTask,     *)
(* assignTask, addUserToProject and createProject calls, each task whose   *)
(* assigneeId is set (names a user: is neither null nor the empty string)  *)
(* has a project_members record for (task.projectId, task.assigneeId).     *)
C8_AssigneeIsMember ==
    \A t \in 1..Len(tasks) :
        Provided(tasks[t].assigneeId) =>
            IsMember(tasks[t].assigneeId, tasks[t].projectId)

C8_Witness ==
    \E t \in 1..Len(tasks) :
        /\ tasks[t].assigneeId \in Users
        /\ tasks[t].assigneeId # projects[tasks[t].projectId].ownerId
        /\ tasks[t].updatedAt # tasks[t].createdAt

\* call r, waiting at some request, was served in this step and goes on
Served(r) == CopiesIn(r, calls') < CopiesIn(r, calls) /\ Done' = {}

(* C9: updateTaskStatus by a project member accepts each of todo, doing,   *)
(* done whatever the task's current status is: each of the nine            *)
(* transitions, the same status again included, sets Task.status to the    *)
(* new value and the call succeeds; any other status value is rejected     *)
(* with the validation error before any remote call.                       *)
C9_AnyStatusTransition ==
    /\ [](\A r \in Returned("updateTaskStatus") :
            /\ r.status \notin TaskStatus =>
                  (r.result = "ValidationError" /\ r.requests = 0 /\ r.writes = <<>>)
            /\ (/\ r.status \in TaskStatus
                /\ r.actorId # ""
                /\ r.taskId \in 1..Len(tasks)
                /\ IsMember(r.actorId, TaskProject(r))
                /\ r.result # "RemoteError") =>
                  (/\ r.result = "ok"
                   /\ WritesTo(r, "tasks") = {1}
                   /\ r.writes[1] = [kind |-> "update", coll |-> "tasks", id |-> r.taskId]))
    /\ [][\A r \in InFlight : \A from, to \in TaskStatus :
            (/\ r.pc = "us_update"
             /\ Served(r)
             /\ tasks[r.taskId].status = from
             /\ r.status = to) => tasks'[r.taskId].status = to]_vars

C9_Witness ==
    \E r \in Returned("updateTaskStatus") :
        /\ r.result = "ok"
        /\ r.status = "todo"
        /\ tasks[r.taskId].status = "todo"
        /\ \E i \in 1..Len(activity_logs) :
              /\ activity_logs[i].entityId = r.taskId
              /\ activity_logs[i].action = "status:done"

\* the writes of each operation, in the order of its code
WriteSequence(op) ==
    CASE op = "createProject" ->
            <<[kind |-> "create", coll |-> "projects"],
              [kind |-> "create", coll |-> "project_members"],
              [kind |-> "create", coll |-> "activity_logs"]>>
      [] op = "addUserToProject" ->
            <<[kind |-> "create", coll |-> "project_members"],
              [kind |-> "create", coll |-> "activity_logs"]>>
      [] op = "createTask" ->
            <<[kind |-> "create", coll |-> "tasks"],
              [kind |-> "create", coll |-> "activity_logs"]>>
      [] OTHER ->
            <<[kind |-> "update", coll |-> "tasks"],
              [kind |-> "create", coll |-> "activity_logs"]>>

\* write w of call r is in the store
Committed(r, w) ==
    CASE w.coll = "projects" ->
            /\ w.id \in 1..Len(projects)
            /\ projects[w.id].name = r.name
            /\ projects[w.id].ownerId = r.actorId
      [] w.coll = "project_members" ->
            /\ w.id \in 1..Len(project_members)
            /\ project_members[w.id].userId =
                  (IF r.op = "createProject" THEN r.actorId ELSE r.userId)
      [] w.coll = "tasks" ->
            /\ w.id \in 1..Len(tasks)
            /\ w.kind = "create" => tasks[w.id].title = r.name
      [] OTHER -> w.id \in 1..Len(activity_logs)

(* C10: in every multi-write operation, if the remote write at step N      *)
(* fails, the writes of steps 1..N-1 remain committed (the failing step    *)
(* changes nothing in the store: no rollback, no compensating write), no   *)
(* later step of the call is attempted and no write is retried (nothing is *)
(* written while the error is handed to the caller), and the call ends     *)
(* with the error; a project persists when createProject's membership or   *)
(* log write fails.                                                        *)
C10_NoRollback ==
    /\ [](\A r \in Done :
            (r.op \in Mutating /\ r.result = "RemoteError") =>
                /\ Len(r.writes) < Len(WriteSequence(r.op))
                /\ \A k \in 1..Len(r.writes) :
                      /\ r.writes[k].kind = WriteSequence(r.op)[k].kind
                      /\ r.writes[k].coll = WriteSequence(r.op)[k].coll
                      /\ Committed(r, r.writes[k]))
    /\ [][(\E r \in Done' : r.result = "RemoteError") => store' = store]_vars
    /\ [][Done # {} => store' = store]_vars

C10_Witness ==
    \E r \in Returned("createProject") :
        /\ r.result = "RemoteError"
        /\ Len(r.writes) = 2
        /\ projects[r.writes[1].id].ownerId = r.actorId
        /\ \A i \in 1..Len(activity_logs) : activity_logs[i].entityId # r.writes[1].id
                                            \/ activity_logs[i].entityType # "project"

\* a required argument of the call is empty, or its status is not a TaskStatus
InvalidArguments(r) ==
    CASE r.op = "createProject" -> r.actorId = "" \/ r.name = ""
      [] r.op = "listUserProjects" -> r.userId = ""
      [] r.op = "addUserToProject" ->
            r.projectId = 0 \/ r.userId = "" \/ r.actorId = ""
      [] r.op = "createTask" -> r.actorId = "" \/ r.projectId = 0 \/ r.name = ""
      [] r.op = "assignTask" -> r.actorId = "" \/ r.taskId = 0 \/ r.assigneeId = ""
      [] r.op = "updateTaskStatus" ->
            r.actorId = "" \/ r.taskId = 0 \/ r.status \notin TaskStatus
      [] r.op \in {"listProjectTasks", "listActivityLogs", "subscribeActivityLogs"} ->
            r.projectId = 0
      [] OTHER -> FALSE

(* C11: validation is checked before any remote call: every service call   *)
(* with an empty required argument (createProject, listUserProjects,       *)
(* addUserToProject, createTask, assignTask, updateTaskStatus,             *)
(* listProjectTasks, listActivityLogs, subscribeActivityLogs) or an        *)
(* invalid status fails with the validation error having issued no store   *)
(* read, no store write and no channel connection, and the step in which   *)
(* it fails leaves the store and the watcher unchanged.                    *)
C11_ValidationFirst ==
    /\ [](\A r \in Done :
            InvalidArguments(r) =>
                /\ r.result = "ValidationError"
                /\ r.requests = 0
                /\ r.writes = <<>>)
    /\ [][(Done = {} /\ \E r \in Done' : r.result = "ValidationError") =>
             (store' = store /\ watcher' = watcher)]_vars

C11_Witness ==
    /\ watcher.state = "none"
    /\ Len(activity_logs) > 3
    /\ \E r \in Returned("subscribeActivityLogs") :
          r.projectId = 0 /\ r.result = "ValidationError"

(* C12: addUserToProject fails with the authorization error whenever       *)
(* actorId has no membership record for projectId, also when userId is     *)
(* already a member (authorization is decided before the duplicate check), *)
(* and then writes no membership and no activity entry; on success it      *)
(* writes the membership first and then one activity entry with action     *)
(* add_member.  (A call whose membership lookup itself fails ends with     *)
(* that remote error, and writes nothing either.)                          *)
C12_AddUserAuthorization ==
    \A r \in Returned("addUserToProject") :
        /\ (r.result # "ValidationError" /\ ~IsMember(r.actorId, r.projectId)) =>
              /\ r.result \in {"AuthorizationError", "RemoteError"}
              /\ r.writes = <<>>
        /\ r.result = "AuthorizationError" => r.requests = 1
        /\ r.result = "ok" =>
              /\ Len(r.writes) = 2
              /\ r.writes[1].kind = "create" /\ r.writes[1].coll = "project_members"
              /\ r.writes[2].kind = "create" /\ r.writes[2].coll = "activity_logs"
              /\ project_members[r.writes[1].id].projectId = r.projectId
              /\ project_members[r.writes[1].id].userId = r.userId
              /\ activity_logs[r.writes[2].id].action = "add_member"
              /\ activity_logs[r.writes[2].id].entityId = r.writes[1].id

C12_Witness ==
    \E r \in Returned("addUserToProject") :
        /\ r.result = "AuthorizationError"
        /\ ~IsMember(r.actorId, r.projectId)
        /\ IsMember(r.userId, r.projectId)

(* C13: the activity log is append-only: no service operation updates or   *)
(* deletes an activity_logs document; in every step the log either is      *)
(* unchanged or grows by exactly one entry, and every earlier entry keeps  *)
(* all of its fields.                                                      *)
C13_AppendOnly ==
    [][\/ activity_logs' = activity_logs
       \/ /\ Len(activity_logs') = Len(activity_logs) + 1
          /\ SubSeq(activity_logs', 1, Len(activity_logs)) = activity_logs]_vars

C13_Witness ==
    /\ Len(activity_logs) = 5
    /\ activity_logs[5].action = "assign"
    /\ activity_logs[1].action = "create"

(* C14: within one createProject call the writes happen strictly in the    *)
(* order project, owner membership, activity entry: the membership write   *)
(* is issued only once the project write has succeeded and the log write   *)
(* only once the membership write has succeeded, so no state has the       *)
(* activity entry or the owner membership of a project without the project *)
(* document.                                                               *)
C14_CreateProjectOrder ==
    /\ \A r \in InFlight :
          r.op = "createProject" =>
              /\ \A k \in 1..Len(r.writes) :
                    /\ r.writes[k].coll = WriteSequence(r.op)[k].coll
                    /\ Committed(r, r.writes[k])
              /\ r.pc = "cp_project" => Len(r.writes) = 0
              /\ r.pc = "cp_member" => Len(r.writes) = 1
              /\ r.pc = "cp_log" => Len(r.writes) = 2
    /\ \A i \in 1..Len(project_members) :
          project_members[i].projectId \in 1..Len(projects)
    /\ \A i \in 1..Len(activity_logs) :
          activity_logs[i].entityType = "project" =>
              /\ activity_logs[i].entityId \in 1..Len(projects)
              /\ Memberships(activity_logs[i].entityId,
                             projects[activity_logs[i].entityId].ownerId) # {}

C14_Witness ==
    \E r \in InFlight :
        /\ r.op = "createProject"
        /\ r.pc = "cp_log"
        /\ Memberships(r.docId, r.actorId) # {}
        /\ \A i \in 1..Len(activity_logs) : activity_logs[i].projectId # r.docId

\* how often x occurs in a sequence
Occurrences(seq, x) == Cardinality({k \in 1..Len(seq) : seq[k] = x})

\* listUserProjects call r has just had its membership listing served
Listed(r) ==
    /\ r.op = "listUserProjects"
    /\ r \notin InFlight
    /\ \/ r.pc = "lp_fetch" /\ \A k \in 1..Len(r.value) : r.value[k] = 0
       \/ r.pc = "done" /\ r.result = "ok" /\ r.list = <<>>

(* C15: listUserProjects(userId) returns the empty sequence without error  *)
(* when userId has no memberships, and otherwise one project per           *)
(* membership record, in the order of the membership listing, whatever     *)
(* order the concurrent project fetches complete in.                       *)
C15_ListUserProjectsOrder ==
    /\ [](\A r \in Returned("listUserProjects") :
            /\ (r.userId # "" /\ ~r.failed) => r.result = "ok"
            /\ r.result = "ok" =>
                  /\ Len(r.value) = Len(r.list)
                  /\ \A k \in 1..Len(r.list) : r.value[k] = r.list[k]
                  /\ r.requests = 1 + Len(r.list))
    /\ [][\A r \in InFlight' :
            /\ Listed(r) =>
                  \A p \in 1..Len(projects) :
                      Occurrences(r.list, p) = Cardinality(Memberships(p, r.userId))
            /\ (r.op = "listUserProjects" /\ r \notin InFlight /\ r.requests = 1
                  /\ r.pc # "lp_list" /\ ~r.failed
                  /\ \A p \in 1..Len(projects) : Memberships(p, r.userId) = {}) =>
                  (r.pc = "done" /\ r.result = "ok" /\ r.value = <<>>)]_vars

C15_Witness ==
    \E r \in Returned("listUserProjects") :
        /\ r.result = "ok"
        /\ r.order = <<2, 1>>
        /\ r.value = r.list
        /\ r.value[1] # r.value[2]

(* C16: concurrent assignTask / updateTaskStatus calls on one task are     *)
(* last-write-wins.  The store applies every update it is handed, whatever *)
(* other calls read or wrote since the call's checks, so no update is      *)
(* rejected or lost; a task's status (assigneeId) changes in no other step *)
(* than a status (assignee) update of that task and then is the value of   *)
(* that update, so after all calls it is the value of the update applied   *)
(* last; an assignee update never changes the status and a status update   *)
(* never changes the assignee.                                             *)
C16_LastWriteWins ==
    /\ [](\A r \in Returned("assignTask") \cup Returned("updateTaskStatus") :
            /\ r.result # "ConflictError"
            /\ (r.writes # <<>> /\ ~r.failed) => r.result = "ok")
    /\ [][\A r \in InFlight :
            /\ (r.pc = "at_update" /\ Served(r)) =>
                  /\ tasks'[r.taskId].assigneeId = r.assigneeId
                  /\ tasks'[r.taskId].status = tasks[r.taskId].status
            /\ (r.pc = "us_update" /\ Served(r)) =>
                  /\ tasks'[r.taskId].status = r.status
                  /\ tasks'[r.taskId].assigneeId = tasks[r.taskId].assigneeId]_vars
    /\ [][\A t \in 1..Len(tasks) :
            /\ tasks'[t].status # tasks[t].status =>
                  \E r \in InFlight :
                      r.pc = "us_update" /\ r.taskId = t /\ Served(r)
            /\ tasks'[t].assigneeId # tasks[t].assigneeId =>
                  \E r \in InFlight :
                      r.pc = "at_update" /\ r.taskId = t /\ Served(r)]_vars

C16_Witness ==
    /\ \E r \in Returned("updateTaskStatus") :
          /\ r.result = "ok"
          /\ tasks[r.taskId].status # r.status
          /\ tasks[r.taskId].status # "todo"
    /\ Len(activity_logs) = 3

(* C17, as claimed: no error of a remote call is silently discarded by a   *)
(* service function except inside the disposer of subscribeActivityLogs:   *)
(* every other service call in which a remote call fails, the auth         *)
(* wrappers signup, login and getCurrentUser included, ends by raising     *)
(* that error to its caller.                                               *)
C17_NoErrorDiscarded ==
    \A r \in Done : r.failed => r.result = "RemoteError"

(* C17, amended: the error of a failed remote call is discarded in two     *)
(* places only, the disposer of subscribeActivityLogs and getCurrentUser,  *)
(* whose catch block turns any failure of its remote call into the result  *)
(* null; every other service call in which a remote call fails (signup and *)
(* login included) ends by raising that error to its caller.               *)
C17_ErrorsPropagate ==
    \A r \in Done :
        /\ r.failed =>
              IF r.op = "getCurrentUser"
              THEN r.result = "ok" /\ r.value = <<Null>>
              ELSE r.result = "RemoteError"
        /\ r.result = "RemoteError" => r.failed

C17_Witness ==
    \E r \in Returned("getCurrentUser") :
        /\ r.failed
        /\ r.result = "ok"
        /\ r.value = <<Null>>
        /\ isAuthenticated

(* C18: assignTask and updateTaskStatus on a taskId that has no tasks      *)
(* document fail with the not-found error of the task fetch, before any    *)
(* membership check (the fetch is the only request issued), and write      *)
(* neither a task update nor an activity entry.  (If the fetch is rejected *)
(* for another reason the call ends with that error, and writes nothing.)  *)
C18_MissingTask ==
    \A r \in Returned("assignTask") \cup Returned("updateTaskStatus") :
        (r.result # "ValidationError" /\ r.taskId \notin 1..Len(tasks)) =>
            /\ r.result \in {"NotFoundError", "RemoteError"}
            /\ r.requests = 1
            /\ r.writes = <<>>

C18_Witness ==
    \E r \in Returned("assignTask") :
        /\ r.result = "NotFoundError"
        /\ r.taskId \notin 1..Len(tasks)
        /\ Len(projects) > 0
        /\ ~IsMember(r.assigneeId, 1)

(* C19: every task is created with status todo, and in every reachable     *)
(* state every task's status is one of todo, doing, done.                  *)
C19_TaskStatusDomain ==
    /\ [](\A t \in 1..Len(tasks) : tasks[t].status \in TaskStatus)
    /\ [][Len(tasks') # Len(tasks) =>
            /\ Len(tasks') = Len(tasks) + 1
            /\ tasks'[Len(tasks')].status = "todo"]_vars

C19_Witness ==
    /\ Len(tasks) = 2
    /\ tasks[1].status = "done"
    /\ tasks[2].status = "todo"

(* C20: the disposer returned by subscribeActivityLogs never raises to its *)
(* caller: called when the channel is already closed, called again after a *)
(* first call, or when disconnect fails, it returns normally.              *)
C20_DisposerNeverRaises ==
    /\ ~watcher.raised
    /\ watcher.swallowed <= watcher.disposals
    /\ watcher.disposals > 0 => watcher.state # "none"

C20_Witness ==
    /\ watcher.disposals = 2
    /\ watcher.swallowed = 1
    /\ watcher.state = "closed"
    /\ ~watcher.raised

\* the collection an activity entry's entityId points into
EntityCollection(entityType) ==
    CASE entityType = "project" -> projects
      [] entityType = "project_member" -> project_members
      [] OTHER -> tasks

(* C21: referential integrity holds in every reachable state: every        *)
(* project_members record, every tasks record and every activity_logs      *)
(* record carries the projectId of an existing projects document, and      *)
(* every activity entry's entityId is the id of an existing project,       *)
(* membership or task.                                                     *)
C21_ReferentialIntegrity ==
    /\ \A i \in 1..Len(project_members) :
          project_members[i].projectId \in 1..Len(projects)
    /\ \A t \in 1..Len(tasks) : tasks[t].projectId \in 1..Len(projects)
    /\ \A i \in 1..Len(activity_logs) :
          /\ activity_logs[i].projectId \in 1..Len(projects)
          /\ activity_logs[i].entityType \in {"project", "project_member", "task"}
          /\ activity_logs[i].entityId \in
                1..Len(EntityCollection(activity_logs[i].entityType))

\* a call that named a project missing from the store has been refused with
\* nothing written
C21_Witness ==
    \E r \in Returned("createTask") \cup Returned("addUserToProject") :
        /\ r.projectId \notin 0..Len(projects)
        /\ r.result = "AuthorizationError"
        /\ r.writes = <<>>

(* C22: audit attribution is authorized: for every activity_logs entry in  *)
(* every reachable state a project_members record exists for              *)
(* (entry.projectId, entry.actorId); no mutation is logged for an actor    *)
(* who is not a member of that project.                                    *)
C22_LoggedActorIsMember ==
    \A i \in 1..Len(activity_logs) :
        IsMember(activity_logs[i].actorId, activity_logs[i].projectId)

C22_Witness ==
    \E i \in 1..Len(activity_logs) :
        /\ activity_logs[i].actorId = "u2"
        /\ activity_logs[i].action = "status:doing"
        /\ Memberships(activity_logs[i].projectId, "u2") # {}

\* the status:<status> entries of a task, by position in the log
StatusEntries(t) ==
    {i \in 1..Len(activity_logs) :
        /\ activity_logs[i].entityType = "task"
        /\ activity_logs[i].entityId = t
        /\ activity_logs[i].action \in {StatusAction(st) : st \in TaskStatus}}

\* the status named by the task's most recently appended status entry, or
\* todo if it has none
LastLoggedStatus(t) ==
    IF StatusEntries(t) = {} THEN "todo"
    ELSE LET last == CHOOSE i \in StatusEntries(t) : \A j \in StatusEntries(t) : j <= i
         IN  CHOOSE st \in TaskStatus : activity_logs[last].action = StatusAction(st)

(* C23: when no remote call fails and no call is in flight, the status of  *)
(* each task equals the status named by the most recently appended         *)
(* status:<status> activity entry for that task (or todo if there is       *)
(* none), also after interleaved updateTaskStatus calls on the same task.  *)
C23_StatusMatchesLog ==
    calls = EmptyBag =>
        \A t \in 1..Len(tasks) : tasks[t].status = LastLoggedStatus(t)

\* the createProject call that wrote project p is still running
Creating(p) ==
    \E r \in InFlight :
        r.op = "createProject" /\ r.pc # "done" /\ r.docId = p

(* C24: whenever the createProject call that created a project is no       *)
(* longer in flight (it returned or failed), that project has a            *)
(* project_members record for its ownerId, so every persisted project has  *)
(* at least one member able to add members and create tasks.               *)
C24_OwnerIsMember ==
    \A p \in 1..Len(projects) :
        ~Creating(p) => IsMember(projects[p].ownerId, p)

\* seq keeps every record that old holds, at the same position
Extends(old, seq) ==
    /\ Len(seq) >= Len(old)
    /\ \A i \in 1..Len(old) : seq[i] = old[i]

\* the requests a call issues after its membership checks have passed
PastChecks ==
    {"au_exists", "au_member", "au_log", "ct_task", "ct_log",
     "at_update", "at_log", "us_update", "us_log"}

\* the call's membership checks would pass again on the store as it is now
StillAuthorized(r) ==
    /\ r.op \in {"assignTask", "updateTaskStatus"} =>
           /\ r.taskId \in 1..Len(tasks)
           /\ TaskProject(r) = r.projectId
    /\ IsMember(r.actorId, r.projectId)
    /\ (r.op = "assignTask" \/ (r.op = "createTask" /\ Provided(r.assigneeId))) =>
           IsMember(r.assigneeId, r.projectId)

(* C25: membership is monotone. No step removes or modifies a              *)
(* project_members record, a projects record or the projectId of a task,   *)
(* so a membership query that is true for (userId, projectId) is true in   *)
(* every later state, and a call whose authorization checks have passed    *)
(* would still pass them at the moment of the write that follows.          *)
C25_MembershipMonotone ==
    /\ [][/\ Extends(project_members, project_members')
          /\ Extends(projects, projects')
          /\ Len(tasks') >= Len(tasks)
          /\ \A t \in 1..Len(tasks) : tasks'[t].projectId = tasks[t].projectId
          /\ \A u \in Users, p \in 1..Len(projects) :
                 IsMember(u, p) => IsMember(u, p)']_vars
    /\ [](\A r \in InFlight : r.pc \in PastChecks => StillAuthorized(r))

\* a call has passed its checks and its write is pending while another
\* call's membership write has been applied
C25_Witness ==
    \E r \in InFlight :
        /\ r.pc \in {"ct_task", "at_update", "us_update"}
        /\ Len(project_members) > 1

(* ------------------------------ projects service ---------------------- *)

\* calls of one run of the projects service
MaxProjectCalls == 3

\* The projects service alone: createProject, addUserToProject and
\* listUserProjects, over a store that may reject any request.
NextProjects ==
    \/ \E a \in CreateProjectArgs : CreateProject(a[1], a[2])
    \/ \E r \in InFlight : CpProject(r)
    \/ \E r \in InFlight : CpMember(r)
    \/ \E r \in InFlight : CpLog(r)
    \/ \E a \in AddUserToProjectArgs : AddUserToProject(a[1], a[2], a[3])
    \/ \E r \in InFlight : AuActor(r)
    \/ \E r \in InFlight : AuExists(r)
    \/ \E r \in InFlight : AuMember(r)
    \/ \E r \in InFlight : AuLog(r)
    \/ \E userId \in UserArgs : ListUserProjects(userId)
    \/ \E r \in InFlight : LpList(r)
    \/ \E r \in InFlight : \E k \in 1..Len(r.list) : LpFetch(r, k)
    \/ \E r \in InFlight : RemoteFail(r)
    \/ \E r \in InFlight : Return(r)

\* The store after createProject("u1", "Launch") has returned.
InitProjects ==
    /\ projects = <<[name |-> "Launch", ownerId |-> "u1", createdAt |-> 1]>>
    /\ project_members = <<[projectId |-> 1, userId |-> "u1", joinedAt |-> 1]>>
    /\ tasks = <<>>
    /\ activity_logs = <<ActivityLog(1, "u1", "project", 1, "create", 1)>>
    /\ calls = EmptyBag
    /\ clock = 2
    /\ budget = MaxProjectCalls
    /\ session = SignedOut
    /\ watcher = NoWatcher

SpecProjects == InitProjects /\ [][NextProjects]_vars

(* C26: listUserProjects(userId) returns each project at most once, in     *)
(* every store state the service operations can reach, interleaved         *)
(* addUserToProject calls included, when the user has at most 100          *)
(* memberships.                                                            *)
C26_EachProjectOnce ==
    \A r \in Returned("listUserProjects") :
        r.result = "ok" =>
            \A p \in 1..Len(projects) : Occurrences(r.value, p) <= 1

====
